---- MODULE Spec2Model ----
(***************************************************************************)
(* A model of the algosh front end: the Transform grammar rule             *)
(* (src/src/parser/expr/transform.rs) over the parser primitives it uses,  *)
(* the diagnostic value Error with its label/merge operations and the      *)
(* Operator classification (src/algo/src/lib.rs).                          *)
(***************************************************************************)
EXTENDS Integers, Sequences, FiniteSets, TLC

VARIABLES
    tokens,    \* the parser's token stream (a sequence of spanned tokens)
    cursor,    \* index of the parser's current token; Len(tokens)+1 at end of input
    log,       \* the parser operations run so far, each with its result
    err,       \* the diagnostic (algo::Error) being labelled / merged
    orig,      \* the diagnostic the sequence of with_label/merge started from
    errLog,    \* the last operation applied to err, with its operands
    op,        \* the Operator being classified
    class,     \* the classifications of op computed so far
    node,      \* the Transform a reduction step is run on
    outcome    \* how the reduction step ended

vars == <<tokens, cursor, log, err, orig, errLog, op, class, node, outcome>>

parserVars == <<tokens, cursor, log>>
errorVars == <<err, orig, errLog>>
operatorVars == <<op, class>>
reduceVars == <<node, outcome>>

----------------------------------------------------------------------------
(* Bounds of the model *)

\* longest token stream enumerated exhaustively over every token kind
MaxLen == 3
\* most bindings in all the parameter lists of a generated well-formed stream
MaxBindings == 2
\* most parser operations run on one stream
MaxOps == 2

----------------------------------------------------------------------------
(* Option values *)

None == [some |-> FALSE]
Some(v) == [some |-> TRUE, val |-> v]

----------------------------------------------------------------------------
(* Tokens: lexer::TokenKind and lexer::Token *)

Names == {"x", "y"}

Kind(tag) == [tag |-> tag, sym |-> "-"]
Identifier(name) == [tag |-> "Identifier", sym |-> name]
ParameterBrace == Kind("ParameterBrace")
Assign == Kind("Assign")
Separator == Kind("Separator")
TypeInt == Kind("Int")
TypeBool == Kind("Bool")
Integer == Kind("Integer")

TokenKind ==
    {Identifier(n) : n \in Names}
        \cup {ParameterBrace, Assign, Separator, TypeInt, TypeBool, Integer}

\* the span the lexer gives the i-th token of a stream
SpanAt(i) == <<i - 1, i>>

\* the token stream of a sequence of token kinds
Lex(kinds) == [i \in 1..Len(kinds) |-> [kind |-> kinds[i], span |-> SpanAt(i)]]

----------------------------------------------------------------------------
(* parser::expr::TypeKind and its conversion from a token kind *)

TypeKind(tag, sym) == [tag |-> tag, sym |-> sym]
IntType == TypeKind("Int", "-")
BoolType == TypeKind("Bool", "-")
Checked(sym) == TypeKind("Checked", sym)
NoType == TypeKind("-", "-")

\* defined on the tokens that name a primitive type or a checked type
TypeKindTryFrom(kind) ==
    CASE kind = TypeInt -> [ok |-> TRUE, val |-> IntType]
      [] kind = TypeBool -> [ok |-> TRUE, val |-> BoolType]
      [] kind.tag = "Identifier" -> [ok |-> TRUE, val |-> Checked(kind.sym)]
      [] OTHER -> [ok |-> FALSE, val |-> NoType]

----------------------------------------------------------------------------
(* parser::expr::ParserError *)

NoError == [kind |-> "-", expected |-> <<>>, found |-> None, msg |-> ""]

Unexpected(expected, found) ==
    [kind |-> "Unexpected", expected |-> expected, found |-> found, msg |-> ""]

FoundMsg(found, msg) ==
    [kind |-> "FoundMsg", expected |-> <<>>, found |-> found, msg |-> msg]

ReplaceThisError ==
    [kind |-> "ReplaceThisError", expected |-> <<>>, found |-> None, msg |-> ""]

ExpectedIdentifierMsg == "expected identifier (hint: parameter format is 'name: Int')"
ExpectedTypeMsg == "expected type (hint: parameter format is 'name: Type')"

----------------------------------------------------------------------------
(* Parser primitives.  Each returns the outcome and the cursor it leaves. *)

Ret(ok, val, e, pos) == [ok |-> ok, val |-> val, err |-> e, pos |-> pos]

peek(toks, pos) == IF pos <= Len(toks) THEN Some(toks[pos]) ELSE None

advance(toks, pos) ==
    IF pos <= Len(toks)
    THEN Ret(TRUE, Some(toks[pos]), NoError, pos + 1)
    ELSE Ret(TRUE, None, NoError, pos)

expect(toks, pos, kind) ==
    LET cur == peek(toks, pos) IN
    IF cur.some /\ cur.val.kind = kind
    THEN Ret(TRUE, cur, NoError, pos + 1)
    ELSE Ret(FALSE, None, Unexpected(<<kind>>, cur), pos)

\* f is the caller's projection, a function of the token
expect_with(toks, pos, f) ==
    LET cur == peek(toks, pos) IN
    IF ~cur.some
    THEN Ret(FALSE, NoType, Unexpected(<<>>, None), pos)
    ELSE LET r == f[cur.val] IN
         IF r.ok
         THEN Ret(TRUE, r.val, NoError, pos + 1)
         ELSE Ret(FALSE, NoType, r.err, pos)

----------------------------------------------------------------------------
(* Transform::try_from *)

\* the closure handed to expect_with for the type of a parameter, as a
\* function of the tokens of the stream
TypeProjection(toks) ==
    [t \in {toks[i] : i \in DOMAIN toks} |->
        LET r == TypeKindTryFrom(t.kind) IN
        IF r.ok
        THEN [ok |-> TRUE, val |-> r.val, err |-> NoError]
        ELSE [ok |-> FALSE, val |-> NoType, err |-> FoundMsg(Some(t), ExpectedTypeMsg)]]

\* peek_identifier with the token taken by advance() instead of peek(): the
\* rejected token is consumed
peek_identifier_advancing(toks, pos) ==
    LET cur == advance(toks, pos) IN
    IF cur.val.some /\ cur.val.val.kind.tag = "Identifier"
    THEN Ret(TRUE, cur.val.val.kind.sym, NoError, pos)
    ELSE Ret(FALSE, "-", FoundMsg(cur.val, ExpectedIdentifierMsg), cur.pos)

\* let Some(TokenKind::Identifier(name)) = parser.peek().map(Token::kind) else { return Err(..) }
peek_identifier(toks, pos) ==
    LET cur == peek(toks, pos) IN
    IF cur.some /\ cur.val.kind.tag = "Identifier"
    THEN Ret(TRUE, cur.val.kind.sym, NoError, pos)
    ELSE Ret(FALSE, "-", FoundMsg(peek(toks, pos), ExpectedIdentifierMsg), pos)

\* the outcome of the parameter loop: the local vector `parameters` as it is
\* when the loop is left, the cursor, and the error when it is left by return
LoopRet(ok, parameters, e, pos) ==
    [ok |-> ok, parameters |-> parameters, err |-> e, pos |-> pos]

\* parameter_loop with a closing brace accepted where a binding starts, so that
\* a list may have no binding
RECURSIVE parameter_loop_optional(_, _, _)
parameter_loop_optional(toks, pos, parameters) ==
    LET first == peek(toks, pos) IN
    IF first.some /\ first.val.kind = ParameterBrace
    THEN LoopRet(TRUE, parameters, NoError, advance(toks, pos).pos)
    ELSE
    LET id == peek_identifier(toks, pos) IN
    IF ~id.ok THEN LoopRet(FALSE, parameters, id.err, id.pos)
    ELSE
    LET as == expect(toks, id.pos, Assign) IN
    IF ~as.ok THEN LoopRet(FALSE, parameters, as.err, as.pos)
    ELSE
    LET ty == expect_with(toks, as.pos, TypeProjection(toks)) IN
    IF ~ty.ok THEN LoopRet(FALSE, parameters, ty.err, ty.pos)
    ELSE
    LET pushed == Append(parameters, <<id.val, ty.val>>)
        nxt == peek(toks, ty.pos)
    IN  CASE nxt.some /\ nxt.val.kind = ParameterBrace ->
                LoopRet(TRUE, pushed, NoError, advance(toks, ty.pos).pos)
          [] nxt.some /\ nxt.val.kind = Separator ->
                parameter_loop_optional(toks, advance(toks, ty.pos).pos, pushed)
          [] OTHER -> LoopRet(FALSE, pushed, ReplaceThisError, ty.pos)

RECURSIVE parameter_loop(_, _, _)
parameter_loop(toks, pos, parameters) ==
    LET id == peek_identifier(toks, pos) IN
    IF ~id.ok THEN LoopRet(FALSE, parameters, id.err, id.pos)
    ELSE
    LET as == expect(toks, id.pos, Assign) IN
    IF ~as.ok THEN LoopRet(FALSE, parameters, as.err, as.pos)
    ELSE
    LET ty == expect_with(toks, as.pos, TypeProjection(toks)) IN
    IF ~ty.ok THEN LoopRet(FALSE, parameters, ty.err, ty.pos)
    ELSE
    LET pushed == Append(parameters, <<id.val, ty.val>>)
        nxt == peek(toks, ty.pos)
    IN  CASE nxt.some /\ nxt.val.kind = ParameterBrace ->
                LoopRet(TRUE, pushed, NoError, advance(toks, ty.pos).pos)
          [] nxt.some /\ nxt.val.kind = Separator ->
                parameter_loop(toks, advance(toks, ty.pos).pos, pushed)
          [] OTHER -> LoopRet(FALSE, pushed, ReplaceThisError, ty.pos)

\* a Transform value
Transform(parameters, next_expr) ==
    [parameters |-> parameters, next_expr |-> next_expr]

\* The result of try_from: Ok(node) or Err(err), with the cursor it leaves.
\* frames lists, outermost first, the invocations of try_from that were
\* entered: the cursor at entry and the local `parameters` at return.
Frame(start, parameters) == [start |-> start, parameters |-> parameters]

TryRet(ok, n, e, pos, frames) ==
    [ok |-> ok, node |-> n, err |-> e, pos |-> pos, frames |-> frames]

NoNode == <<>>

\* try_from with the failure of the parameter loop swallowed: the node built so
\* far is returned without a body
RECURSIVE try_from_partial_node(_, _)
try_from_partial_node(toks, pos) ==
    LET open == expect(toks, pos, ParameterBrace) IN
    IF ~open.ok THEN TryRet(FALSE, NoNode, open.err, open.pos, <<Frame(pos, <<>>)>>)
    ELSE
    LET lp == parameter_loop(toks, open.pos, <<>>) IN
    IF ~lp.ok
    THEN TryRet(TRUE, <<Transform(lp.parameters, NoNode)>>, NoError, lp.pos,
                <<Frame(pos, lp.parameters)>>)
    ELSE
    LET body == try_from_partial_node(toks, lp.pos)
        frames == <<Frame(pos, lp.parameters)>> \o body.frames
    IN  IF ~body.ok
        THEN TryRet(FALSE, NoNode, body.err, body.pos, frames)
        ELSE TryRet(TRUE, <<Transform(lp.parameters, body.node)>>, NoError, body.pos, frames)

\* try_from with a terminal case: at end of input a Transform with no parameter
\* and no body is returned
RECURSIVE try_from_terminal_case(_, _)
try_from_terminal_case(toks, pos) ==
    IF ~peek(toks, pos).some
    THEN TryRet(TRUE, <<Transform(<<>>, NoNode)>>, NoError, pos, <<Frame(pos, <<>>)>>)
    ELSE
    LET open == expect(toks, pos, ParameterBrace) IN
    IF ~open.ok THEN TryRet(FALSE, NoNode, open.err, open.pos, <<Frame(pos, <<>>)>>)
    ELSE
    LET lp == parameter_loop(toks, open.pos, <<>>) IN
    IF ~lp.ok
    THEN TryRet(FALSE, NoNode, lp.err, lp.pos, <<Frame(pos, lp.parameters)>>)
    ELSE
    LET body == try_from_terminal_case(toks, lp.pos)
        frames == <<Frame(pos, lp.parameters)>> \o body.frames
    IN  IF ~body.ok
        THEN TryRet(FALSE, NoNode, body.err, body.pos, frames)
        ELSE TryRet(TRUE, <<Transform(lp.parameters, body.node)>>, NoError, body.pos, frames)

RECURSIVE try_from(_, _)
try_from(toks, pos) ==
    LET open == expect(toks, pos, ParameterBrace) IN
    IF ~open.ok THEN TryRet(FALSE, NoNode, open.err, open.pos, <<Frame(pos, <<>>)>>)
    ELSE
    LET lp == parameter_loop(toks, open.pos, <<>>) IN
    IF ~lp.ok
    THEN TryRet(FALSE, NoNode, lp.err, lp.pos, <<Frame(pos, lp.parameters)>>)
    ELSE
    LET body == try_from(toks, lp.pos)
        frames == <<Frame(pos, lp.parameters)>> \o body.frames
    IN  IF ~body.ok
        THEN TryRet(FALSE, NoNode, body.err, body.pos, frames)
        ELSE TryRet(TRUE, <<Transform(lp.parameters, body.node)>>, NoError, body.pos, frames)

----------------------------------------------------------------------------
(* Transform::try_reduce *)

\* todo!() panics whatever the node is
try_reduce(n) == [panicked |-> TRUE, ok |-> FALSE]

----------------------------------------------------------------------------
(* The token streams the parser is run on *)

Streams(S, n) == UNION {[1..k -> S] : k \in 0..n}

\* every stream of at most MaxLen tokens
ShortStreams == Streams(TokenKind, MaxLen)

Bindings == Names \X {TypeInt, TypeBool}

BindingKinds(b) == <<Identifier(b[1]), Assign, b[2]>>

RECURSIVE BindingListKinds(_)
BindingListKinds(bs) ==
    IF Len(bs) = 0 THEN <<>>
    ELSE IF Len(bs) = 1 THEN BindingKinds(bs[1])
    ELSE BindingKinds(bs[1]) \o <<Separator>> \o BindingListKinds(Tail(bs))

\* the token kinds of a well-formed parameter list with bindings bs
ParameterListKinds(bs) == <<ParameterBrace>> \o BindingListKinds(bs) \o <<ParameterBrace>>

\* the non-empty binding lists of k bindings
BindingLists(k) == [1..k -> Bindings]

\* the sequences of non-empty binding lists holding at most n bindings in all
RECURSIVE ListChains(_)
ListChains(n) ==
    {<<>>} \cup UNION {{<<bs>> \o c : bs \in BindingLists(k), c \in ListChains(n - k)} :
                         k \in 1..n}

RECURSIVE ChainKinds(_)
ChainKinds(c) ==
    IF Len(c) = 0 THEN <<>> ELSE ParameterListKinds(c[1]) \o ChainKinds(Tail(c))

Prefixes(s) == {SubSeq(s, 1, k) : k \in 0..Len(s)}

\* consecutive well-formed parameter lists, and every truncation of such a
\* stream
ChainStreams == UNION {Prefixes(ChainKinds(c)) : c \in ListChains(MaxBindings)}

Inputs == ShortStreams \cup ChainStreams

----------------------------------------------------------------------------
(* The parser: a token stream and a cursor, driven by its operations *)

NoArg == Kind("-")

ExpectKinds == {ParameterBrace, Assign, Separator}

ParserIdle == tokens = <<>> /\ cursor = 1 /\ log = <<>>

ParserInit ==
    /\ \E kinds \in Inputs : tokens = Lex(kinds)
    /\ cursor = 1
    /\ log = <<>>

Record(name, arg, res) ==
    /\ log' = Append(log, [op |-> name, arg |-> arg, before |-> cursor, res |-> res])
    /\ cursor' = res.pos
    /\ UNCHANGED <<tokens, errorVars, operatorVars, reduceVars>>

TryFromStep ==
    /\ Len(log) < MaxOps
    /\ Record("try_from", NoArg, try_from(tokens, cursor))

ExpectStep ==
    /\ Len(log) < MaxOps
    /\ \E kind \in ExpectKinds : Record("expect", kind, expect(tokens, cursor, kind))

AdvanceStep ==
    /\ Len(log) < MaxOps
    /\ Record("advance", NoArg, advance(tokens, cursor))

----------------------------------------------------------------------------
(* algo::Error, its constructors, with_label and merge *)

Spans == {<<0, 0>>, <<0, 1>>, <<2, 5>>}

Labels == {"transform", "parameter"}

Messages == {"unrecognized input"}

General(msg) == [tag |-> "General", msg |-> msg]

UnexpectedKind(expected, found) ==
    [tag |-> "Unexpected", expected |-> expected, found |-> found]

UnclosedDelimiter(delimiter, delimiter_span, expected, found) ==
    [tag |-> "UnclosedDelimiter", delimiter |-> delimiter,
     delimiter_span |-> delimiter_span, expected |-> expected, found |-> found]

UndeclaredVar(var_name) == [tag |-> "UndeclaredVar", var_name |-> var_name]

NoTle == [tag |-> "NoTle"]

Error(span, kind, label) == [span |-> span, kind |-> kind, label |-> label]

general(span, msg, label) == Error(span, General(msg), label)

unexpected(span, expected, found, label) ==
    Error(span, UnexpectedKind(expected, found), label)

undeclared_var(span, var_name, label) == Error(span, UndeclaredVar(var_name), label)

no_top_level_expr == Error(<<0, 0>>, NoTle, None)

\* expected is the sequence of the expected kinds, each an Option; the
\* absent ones are dropped (flatten) and the rest collected in order
RECURSIVE Flatten(_)
Flatten(expected) ==
    IF Len(expected) = 0 THEN <<>>
    ELSE (IF Head(expected).some THEN <<Head(expected).val>> ELSE <<>>)
             \o Flatten(Tail(expected))

expected_input_found(span, expected, found) ==
    Error(span, UnexpectedKind(Flatten(expected), found), None)

unclosed_delimiter(unclosed_span, delimiter, span, expected, found) ==
    Error(span, UnclosedDelimiter(delimiter, unclosed_span, expected, found), None)

with_label(self, label) == Error(self.span, self.kind, Some(label))

\* merge keeping the error of the later alternative
merge_keeps_other(self, other) == other

merge(self, other) == self

\* the diagnostics the constructors build from a few inputs
OptLabels == {None} \cup {Some(l) : l \in Labels}
FoundKinds == {None, Some(Assign), Some(Identifier("x"))}
ExpectedLists == {<<>>, <<Some(ParameterBrace)>>, <<None, Some(Assign), Some(Separator)>>}

BuiltErrors ==
    {general(sp, m, l) : sp \in Spans, m \in Messages, l \in OptLabels}
        \cup {unexpected(sp, Flatten(ex), f, l) :
                 sp \in Spans, ex \in ExpectedLists, f \in FoundKinds, l \in OptLabels}
        \cup {undeclared_var(sp, v, l) : sp \in Spans, v \in Names, l \in OptLabels}
        \cup {no_top_level_expr}
        \cup {expected_input_found(sp, ex, f) :
                 sp \in Spans, ex \in ExpectedLists, f \in FoundKinds}
        \cup {unclosed_delimiter(us, ParameterBrace, sp, ParameterBrace, f) :
                 us \in Spans, sp \in Spans, f \in FoundKinds}

\* the diagnostics of failed alternatives that err is merged with
OtherErrors ==
    {no_top_level_expr,
     general(<<2, 5>>, "unrecognized input", Some("parameter")),
     unclosed_delimiter(<<0, 1>>, ParameterBrace, <<2, 5>>, ParameterBrace, None)}

NoLabel == "-"

ErrorInit ==
    /\ orig \in BuiltErrors
    /\ err = orig
    /\ errLog = [op |-> "new", self |-> orig, other |-> orig, label |-> NoLabel]

ErrorIdle ==
    /\ orig = no_top_level_expr
    /\ err = orig
    /\ errLog = [op |-> "new", self |-> orig, other |-> orig, label |-> NoLabel]

WithLabelStep ==
    \E label \in Labels :
        /\ err' = with_label(err, label)
        /\ errLog' = [op |-> "with_label", self |-> err, other |-> err, label |-> label]
        /\ UNCHANGED <<orig, parserVars, operatorVars, reduceVars>>

MergeStep ==
    \E other \in OtherErrors :
        /\ err' = merge(err, other)
        /\ errLog' = [op |-> "merge", self |-> err, other |-> other, label |-> NoLabel]
        /\ UNCHANGED <<orig, parserVars, operatorVars, reduceVars>>

----------------------------------------------------------------------------
(* algo::Operator and its classifications *)

Operator ==
    {"Exp", "Add", "Sub", "Mul", "Div", "Rem", "Shr", "Shl",
     "BitXor", "BitAnd", "BitOr",
     "Eq", "NotEq",
     "Greater", "GreaterEq", "Less", "LessEq",
     "Or", "Xor", "And",
     "Clow", "Cerm",
     "Assign"}

is_arithmetic(self) ==
    self \in {"Exp", "Add", "Sub", "Mul", "Div", "Rem", "Shr", "Shl",
              "BitXor", "BitAnd", "BitOr"}

is_boolean(self) ==
    self \in {"Eq", "NotEq", "Greater", "GreaterEq", "Less", "LessEq"}

\* is_logical without the comparison operators
is_logical_connectives(self) == self \in {"Or", "Xor", "And"}

is_logical(self) ==
    self \in {"Eq", "NotEq", "Greater", "GreaterEq", "Less", "LessEq",
              "Or", "Xor", "And"}

Unset == "unset"
Yes == "true"
No == "false"
Answer(b) == IF b THEN Yes ELSE No

OperatorInit ==
    /\ op \in Operator
    /\ class = [arithmetic |-> Unset, boolean |-> Unset, logical |-> Unset]

OperatorIdle ==
    /\ op = "Exp"
    /\ class = [arithmetic |-> Unset, boolean |-> Unset, logical |-> Unset]

IsArithmeticStep ==
    /\ class' = [class EXCEPT !.arithmetic = Answer(is_arithmetic(op))]
    /\ UNCHANGED <<op, parserVars, errorVars, reduceVars>>

IsBooleanStep ==
    /\ class' = [class EXCEPT !.boolean = Answer(is_boolean(op))]
    /\ UNCHANGED <<op, parserVars, errorVars, reduceVars>>

IsLogicalStep ==
    /\ class' = [class EXCEPT !.logical = Answer(is_logical(op))]
    /\ UNCHANGED <<op, parserVars, errorVars, reduceVars>>

----------------------------------------------------------------------------
(* The reduction step of a Transform *)

\* an expression that is not a Transform, as the body of a hand-built node
OtherExpr == [parameters |-> <<>>, next_expr |-> <<>>, leaf |-> TRUE]

ParameterVecs == UNION {[1..k -> Names \X {IntType, BoolType}] : k \in 0..MaxBindings}

Leaves == {[parameters |-> ps, next_expr |-> <<OtherExpr>>] : ps \in ParameterVecs}

\* Transform values: a parameter vector and a boxed body, itself a Transform
\* or another expression
Transforms == Leaves \cup {Transform(ps, <<body>>) : ps \in ParameterVecs, body \in Leaves}

NotRun == [panicked |-> FALSE, ok |-> FALSE]

ReduceInit == node \in Transforms /\ outcome = NotRun

ReduceIdle == node = Transform(<<>>, <<OtherExpr>>) /\ outcome = NotRun

TryReduceStep ==
    /\ outcome = NotRun
    /\ outcome' = try_reduce(node)
    /\ UNCHANGED <<node, parserVars, errorVars, operatorVars>>

----------------------------------------------------------------------------
(* Specifications *)

\* the parser run on a token stream
Init == ParserInit /\ ErrorIdle /\ OperatorIdle /\ ReduceIdle

Next == TryFromStep \/ ExpectStep \/ AdvanceStep

Spec == Init /\ [][Next]_vars

\* a diagnostic labelled and merged
ErrorSpecInit == ParserIdle /\ ErrorInit /\ OperatorIdle /\ ReduceIdle

ErrorNext == WithLabelStep \/ MergeStep

ErrorSpec == ErrorSpecInit /\ [][ErrorNext]_vars

\* an operator classified
OperatorSpecInit == ParserIdle /\ ErrorIdle /\ OperatorInit /\ ReduceIdle

OperatorNext == IsArithmeticStep \/ IsBooleanStep \/ IsLogicalStep

OperatorSpec == OperatorSpecInit /\ [][OperatorNext]_vars

\* a Transform reduced
ReduceSpecInit == ParserIdle /\ ErrorIdle /\ OperatorIdle /\ ReduceInit

ReduceNext == TryReduceStep

ReduceSpec == ReduceSpecInit /\ [][ReduceNext]_vars

----------------------------------------------------------------------------
(* Vocabulary of the properties *)

\* the positions in log of the runs of Transform::try_from
Runs == {i \in DOMAIN log : log[i].op = "try_from"}

\* the kinds of the tokens from position pos to the end of input
KindsFrom(pos) == [i \in 1..(Len(tokens) + 1 - pos) |-> tokens[pos + i - 1].kind]

StartsWith(s, prefix) == Len(prefix) <= Len(s) /\ SubSeq(s, 1, Len(prefix)) = prefix

\* the parameter vector a binding list denotes
ParamsOf(bs) == [i \in 1..Len(bs) |-> <<bs[i][1], TypeKindTryFrom(bs[i][2]).val>>]

AllBindingLists == UNION {BindingLists(k) : k \in 1..MaxBindings}

\* the streams made of one or more well-formed parameter lists
CompleteStreams == {ChainKinds(c) : c \in ListChains(MaxBindings) \ {<<>>}}

\* the stream from pos is one or more well-formed parameter lists, then end
\* of input
EndsAfterParameterList(pos) == KindsFrom(pos) \in CompleteStreams

\* the well-formed parameter lists cut short before their closing brace
UnclosedStreams ==
    UNION {{SubSeq(ParameterListKinds(bs), 1, k) : k \in 1..(Len(ParameterListKinds(bs)) - 1)} :
              bs \in AllBindingLists}

\* the stream from pos is a well-formed parameter list cut short by end of
\* input: its opening brace is there, its closing brace is not
Unclosed(pos) == KindsFrom(pos) \in UnclosedStreams

\* the stream from pos starts with an opening brace and a closing brace
EmptyList(pos) == StartsWith(KindsFrom(pos), <<ParameterBrace, ParameterBrace>>)

----------------------------------------------------------------------------
(* Properties of Transform::try_from, checked under Spec *)

\* C1 (as claimed): try_from on two consecutive well-formed parameter lists
\* followed by end of input returns Ok(Transform) whose parameters are the
\* bindings of the first list and whose body is a Transform whose parameters
\* are the bindings of the second list.
C1_TwoListsYieldNestedTransform ==
    \A i \in Runs :
        \A c \in ListChains(MaxBindings) :
            (Len(c) = 2 /\ KindsFrom(log[i].before) = ChainKinds(c)) =>
                /\ log[i].res.ok
                /\ log[i].res.node[1].parameters = ParamsOf(c[1])
                /\ log[i].res.node[1].next_expr[1].parameters = ParamsOf(c[2])

\* C2: on a stream that ends right after the closing brace of a parameter
\* list, try_from returns Err and no Transform node.
C2_BodyRequired ==
    \A i \in Runs :
        EndsAfterParameterList(log[i].before) =>
            /\ ~log[i].res.ok
            /\ log[i].res.node = NoNode
            /\ log[i].res.err # NoError

\* try_from has run on "{x: Int, y: Bool}" and failed
C2_Witness ==
    \E i \in Runs :
        /\ log[i].before = 1
        /\ KindsFrom(1) = ParameterListKinds(<<<<"x", TypeInt>>, <<"y", TypeBool>>>>)
        /\ ~log[i].res.ok

\* C3 (as claimed): when a parameter brace is opened and end of input comes
\* before the closing brace, try_from fails with UnclosedDelimiter whose
\* delimiter_span is the span of the opening brace token.
C3_UnclosedDelimiterReported ==
    \A i \in Runs :
        Unclosed(log[i].before) =>
            /\ ~log[i].res.ok
            /\ log[i].res.err.kind = "UnclosedDelimiter"
            /\ log[i].res.err.delimiter_span = tokens[log[i].before].span

\* C4: when try_from or expect returns an error, the token the error reports
\* is the parser's current token, the tokens consumed are a prefix of
\* well-formed parameter lists (none for expect), and an expect right after a
\* failed expect starts at the same token.
C4_FailureLeavesOffendingToken ==
    \A i \in DOMAIN log :
        (log[i].op \in {"try_from", "expect"} /\ ~log[i].res.ok) =>
            /\ log[i].res.err.kind \in {"Unexpected", "FoundMsg"} =>
                   log[i].res.err.found = peek(tokens, log[i].res.pos)
            /\ log[i].res.pos >= log[i].before
            /\ log[i].op = "expect" => log[i].res.pos = log[i].before
            /\ log[i].op = "try_from" =>
                   [j \in 1..(log[i].res.pos - log[i].before) |->
                       tokens[log[i].before + j - 1].kind] \in ChainStreams
            /\ (i < Len(log) /\ log[i].op = "expect" /\ log[i + 1].op = "expect") =>
                   /\ log[i + 1].before = log[i].before
                   /\ log[i + 1].res.ok => log[i + 1].res.val = log[i].res.err.found
                   /\ ~log[i + 1].res.ok =>
                          log[i + 1].res.err.found = log[i].res.err.found

\* try_from failed after consuming a token, and the expect run right after it
\* failed on the very token try_from reported
C4_Witness ==
    \E i \in Runs :
        /\ i < Len(log)
        /\ ~log[i].res.ok
        /\ log[i].res.pos > log[i].before
        /\ log[i].res.err.found.some
        /\ log[i + 1].op = "expect"
        /\ ~log[i + 1].res.ok
        /\ log[i + 1].res.err.found = log[i].res.err.found

\* C6 (as claimed): an opening brace immediately followed by a closing brace
\* is accepted as a parameter list with no binding, and try_from goes on to
\* construct the body right after the closing brace.
C6_EmptyListAccepted ==
    \A i \in Runs :
        EmptyList(log[i].before) =>
            /\ Len(log[i].res.frames) >= 2
            /\ log[i].res.frames[1].parameters = <<>>
            /\ log[i].res.frames[2].start = log[i].before + 2

\* C6 (amended): an opening brace immediately followed by a closing brace is
\* rejected: try_from returns the "expected identifier" FoundMsg error
\* reporting the closing brace, leaves the cursor on it, has no binding and
\* does not go on to the body.
C6_EmptyListRejected ==
    \A i \in Runs :
        EmptyList(log[i].before) =>
            /\ ~log[i].res.ok
            /\ log[i].res.err =
                   FoundMsg(Some(tokens[log[i].before + 1]), ExpectedIdentifierMsg)
            /\ log[i].res.pos = log[i].before + 1
            /\ Len(log[i].res.frames) = 1
            /\ log[i].res.frames[1].parameters = <<>>

\* try_from has run on a stream that starts with "{}"
C6_Witness ==
    \E i \in Runs : EmptyList(log[i].before) /\ log[i].res.err.kind = "FoundMsg"

\* C9 (as claimed): when the stream starts with a well-formed parameter list,
\* try_from leaves the loop with the bindings of the list in source order in
\* `parameters` and the cursor past every token of the list.
C9_BindingsConsumedInOrder ==
    \A i \in Runs :
        \A bs \in AllBindingLists :
            StartsWith(KindsFrom(log[i].before), ParameterListKinds(bs)) =>
                /\ log[i].res.frames[1].parameters = ParamsOf(bs)
                /\ log[i].res.pos >= log[i].before + Len(ParameterListKinds(bs))

\* C10: every run of try_from returns, and returns Err: no token stream
\* yields a Transform; the cursor stays within the stream and every nested
\* invocation starts further in the stream than the one that made it.
C10_AlwaysError ==
    \A i \in Runs :
        /\ ~log[i].res.ok
        /\ log[i].res.node = NoNode
        /\ log[i].res.err # NoError
        /\ log[i].res.pos \in log[i].before..(Len(tokens) + 1)
        /\ \A j \in 2..Len(log[i].res.frames) :
               log[i].res.frames[j].start > log[i].res.frames[j - 1].start

\* try_from has run on two consecutive well-formed parameter lists and failed
C10_Witness ==
    \E i \in Runs :
        /\ log[i].before = 1
        /\ \E c \in ListChains(MaxBindings) : Len(c) = 2 /\ KindsFrom(1) = ChainKinds(c)
        /\ ~log[i].res.ok

----------------------------------------------------------------------------
(* Property of Transform::try_reduce, checked under ReduceSpec *)

\* C5 (as claimed): the reduction step never panics: it ends by returning.
C5_ReduceNeverPanics == ~outcome.panicked

----------------------------------------------------------------------------
(* Property of with_label and merge, checked under ErrorSpec *)

\* C7: after any sequence of with_label and merge from an error, the error
\* has the span and the kind it started with; with_label sets the label and
\* nothing else, and merge returns self with its three fields, whatever the
\* other error is.
C7_LabelAndMergeKeepSpanAndKind ==
    /\ err.span = orig.span
    /\ err.kind = orig.kind
    /\ errLog.op = "with_label" =>
           /\ err.span = errLog.self.span
           /\ err.kind = errLog.self.kind
           /\ err.label = Some(errLog.label)
    /\ errLog.op = "merge" =>
           /\ err.span = errLog.self.span
           /\ err.kind = errLog.self.kind
           /\ err.label = errLog.self.label

\* a labelled error was merged with an error of another span, kind and label
C7_Witness ==
    /\ errLog.op = "merge"
    /\ err.label # orig.label
    /\ errLog.other.span # err.span
    /\ errLog.other.kind # err.kind
    /\ errLog.other.label # err.label

----------------------------------------------------------------------------
(* Property of the Operator classifications, checked under OperatorSpec *)

Comparisons == {"Eq", "NotEq", "Greater", "GreaterEq", "Less", "LessEq"}

\* C8: the enumeration has 23 tags, each classification answers for every
\* tag, every comparison operator is boolean and logical, and an operator
\* that is boolean is logical.
C8_ComparisonsAreBooleanAndLogical ==
    /\ Cardinality(Operator) = 23
    /\ op \in Operator
    /\ \A c \in DOMAIN class : class[c] \in {Unset, Yes, No}
    /\ op \in Comparisons =>
           /\ class.boolean \in {Unset, Yes}
           /\ class.logical \in {Unset, Yes}
    /\ class.boolean = Yes => class.logical \in {Unset, Yes}

\* a comparison operator was classified by is_boolean and by is_logical
C8_Witness == op = "Less" /\ class.boolean = Yes /\ class.logical = Yes

====
